---- MODULE Spec2Model ----
(***************************************************************************)
(* Model of metric_analysis_m.py: significant peaks and valleys of a       *)
(* closing-price series, their pairing into rally windows, the cubic       *)
(* spline densification of the annual metrics, and the mean Kendall tau    *)
(* of price against each metric over the windows.                          *)
(*                                                                         *)
(* Indices into Python lists are kept 0-based as values (a peak index 7    *)
(* is the number 7); TLA+ sequences are 1-based, so x[k] of the code is    *)
(* At(x, k) here.                                                          *)
(***************************************************************************)
EXTENDS Integers, Sequences, FiniteSets, TLC

\* ------------------------------------------------------------------ bounds
\* longest price series and largest price of the exhaustive detector inputs
DetLen == 6
DetMaxPrice == 3
\* number of positions the arbitrary peak / valley sequences are drawn from
PairLen == 5
\* most peaks and most valleys in an arbitrary input of the pairing loop
PairMax == 3

\* ------------------------------------------------------- program constants
\* prominence = max(price) * 0.15, kept as the fraction PromNum / PromDen
PromNum == 15
PromDen == 100

\* ----------------------------------------------------------------- helpers
At(x, k) == x[k + 1]

Max(S) == CHOOSE a \in S : \A b \in S : a >= b

Min(S) == CHOOSE a \in S : \A b \in S : a <= b

Range(s) == {s[k] : k \in DOMAIN s}

\* the elements of a finite set of integers as an ascending sequence
RECURSIVE Ascending(_)
Ascending(S) ==
    IF S = {} THEN <<>> ELSE <<Min(S)>> \o Ascending(S \ {Min(S)})

\* Python slice x[a:b] for 0 <= a, clipped at the end of x
Slice(x, a, b) ==
    LET e == IF b < Len(x) THEN b ELSE Len(x)
    IN  IF e <= a THEN <<>> ELSE [k \in 1..(e - a) |-> x[a + k]]

\* all sequences over S of length at most len
SeqsUpTo(S, len) == UNION {[1..k -> S] : k \in 0..len}

\* strictly ascending sequences of at most cnt elements of S
AscendingSeqs(S, cnt) ==
    {Ascending(T) : T \in {U \in SUBSET S : Cardinality(U) <= cnt}}

\* --------------------------------------------------------------- detector
\* price * -1
Negate(x) == [k \in DOMAIN x |-> 0 - x[k]]

\* scipy.signal find_peaks, local maxima: a sample (or the midpoint of a
\* plateau) that is strictly higher than both its neighbours; the first and
\* the last sample are never maxima.
PlateauEnd(x, l) ==
    CHOOSE r \in l..(Len(x) - 1) :
        /\ \A k \in l..r : At(x, k) = At(x, l)
        /\ r = Len(x) - 1 \/ At(x, r + 1) # At(x, l)

LocalMaxima(x) ==
    {(l + PlateauEnd(x, l)) \div 2 :
        l \in {c \in 1..(Len(x) - 2) :
                  /\ At(x, c - 1) < At(x, c)
                  /\ PlateauEnd(x, c) < Len(x) - 1
                  /\ At(x, PlateauEnd(x, c) + 1) < At(x, c)}}

\* scipy.signal peak_prominences with wlen unset: walk left and right while
\* the signal stays at or below the peak, take the lowest sample met on each
\* side, and measure the peak above the higher of the two.
LeftStop(x, pk) ==
    Max({0 - 1} \cup {k \in 0..pk : At(x, k) > At(x, pk)})

RightStop(x, pk) ==
    Min({Len(x)} \cup {k \in pk..(Len(x) - 1) : At(x, k) > At(x, pk)})

Prominence(x, pk) ==
    LET left_min  == Min({At(x, k) : k \in (LeftStop(x, pk) + 1)..pk})
        right_min == Min({At(x, k) : k \in pk..(RightStop(x, pk) - 1)})
    IN  At(x, pk) - Max({left_min, right_min})

\* find_peaks(x, prominence = max(price) * 0.15): maxima whose prominence is
\* at least the threshold; price_max is max(price) of the un-negated series
FindPeaks(x, price_max) ==
    Ascending({pk \in LocalMaxima(x) :
                  Prominence(x, pk) * PromDen >= price_max * PromNum})

\* peak_and_valley_finder on an already fetched price: <<peak, valley>>
PeakAndValley(price) ==
    IF Len(price) = 0
    THEN <<(<<>>), (<<>>)>>
    ELSE <<FindPeaks(price, Max(Range(price))),
           FindPeaks(Negate(price), Max(Range(price)))>>

\* ------------------------------------------------------------------ state
VARIABLES
    yf,                  \* what the data provider returns, per instrument
    total_stocks,        \* number of instruments kept by the screening
    pc,                  \* the function the script is in
    i,                   \* instrument index of the running for loop
    j,                   \* metric index of the running inner for loop
    tickers,             \* instruments fetched so far
    prices,              \* price series, per instrument
    pairs,               \* windows [valley, peak], per instrument
    p, v,                \* peak and valley of the instrument being paired
    n, m,                \* valley and peak pointers of the pairing loop
    metric_dict,         \* per instrument, the metrics in key order
    interpolates,        \* per instrument, the dense series in key order
    correlated_metrics,  \* per instrument, the score of every metric
    x, y                 \* slices accumulated by find_kendall_tau

vars == <<yf, total_stocks, pc, i, j, tickers, prices, pairs, p, v, n, m,
          metric_dict, interpolates, correlated_metrics, x, y>>

\* variables the find_pairs phase leaves alone
later_vars == <<j, metric_dict, interpolates, correlated_metrics, x, y>>

\* ------------------------------------------------------------- find_pairs
\* save_as_local_variable: the whole history when it is shorter than 1258
\* rows, the 5 year history otherwise
HistoryRows == 1258

SavedPrice(src) ==
    IF Len(src.max) < HistoryRows THEN src.max ELSE src.five

\* the comparison weakened to <=
QualifiesOrEqual(vn, pm) == vn <= pm

\* v[n] < p[m]
Qualifies(vn, pm) == vn < pm

\* the valley pointer left where it is
ValleyKept(k) == k

\* n += 1 after a window is appended
ValleyAfterEmit(k) == k + 1

\* the peak pointer left where it is
PeakKept(k) == k

\* m += 1, in both branches of the loop body
PeakAfterEmit(k) == k + 1

PeakAfterSkip(k) == k + 1

\* one extremum of each kind accepted as enough
AnyExtrema(pk, vl) == Len(pk) > 0 /\ Len(vl) > 0

\* (len(p) > 1) & (len(v) > 1)
EnoughExtrema(pk, vl) == Len(pk) > 1 /\ Len(vl) > 1

\* (n < len(v)) & (m < len(p))
InLoop == n < Len(v) /\ m < Len(p)

\* p, v = peak_and_valley_finder(ticker i), save_as_local_variable included
Detect ==
    /\ pc = "find_pairs"
    /\ i < total_stocks
    /\ LET price == SavedPrice(At(yf, i))
           pv    == PeakAndValley(price)
       IN  /\ tickers' = Append(tickers, i)
           /\ prices' = Append(prices, price)
           /\ p' = pv[1]
           /\ v' = pv[2]
    /\ pc' = "guard"
    /\ UNCHANGED <<yf, total_stocks, i, pairs, n, m, later_vars>>

\* the if of find_pairs holds: n = m = 0 and the loop is entered
GuardPass ==
    /\ pc = "guard"
    /\ EnoughExtrema(p, v)
    /\ n' = 0
    /\ m' = 0
    /\ pc' = "while"
    /\ UNCHANGED <<yf, total_stocks, i, tickers, prices, pairs, p, v, later_vars>>

\* the if fails: the instrument keeps its empty window list
GuardFail ==
    /\ pc = "guard"
    /\ ~EnoughExtrema(p, v)
    /\ i' = i + 1
    /\ pc' = "find_pairs"
    /\ UNCHANGED <<yf, total_stocks, tickers, prices, pairs, p, v, n, m, later_vars>>

\* pairs[i].append([v[n], p[m]]); n += 1; m += 1
PairEmit ==
    /\ pc = "while"
    /\ InLoop
    /\ Qualifies(At(v, n), At(p, m))
    /\ pairs' = [pairs EXCEPT ![i + 1] = Append(@, <<At(v, n), At(p, m)>>)]
    /\ n' = ValleyAfterEmit(n)
    /\ m' = PeakAfterEmit(m)
    /\ UNCHANGED <<yf, total_stocks, pc, i, tickers, prices, p, v, later_vars>>

\* else: m += 1
PairSkip ==
    /\ pc = "while"
    /\ InLoop
    /\ ~Qualifies(At(v, n), At(p, m))
    /\ m' = PeakAfterSkip(m)
    /\ UNCHANGED <<yf, total_stocks, pc, i, tickers, prices, pairs, p, v, n, later_vars>>

\* the while condition fails: next instrument
WhileExit ==
    /\ pc = "while"
    /\ ~InLoop
    /\ i' = i + 1
    /\ pc' = "find_pairs"
    /\ UNCHANGED <<yf, total_stocks, tickers, prices, pairs, p, v, n, m, later_vars>>

PairingLoop == GuardPass \/ GuardFail \/ PairEmit \/ PairSkip \/ WhileExit

\* an instrument as the provider returns it
Provided(hist, five, statements) ==
    [max |-> hist, five |-> five, statements |-> statements]

\* -------------------------------------- the pairing loop on arbitrary input
\* one instrument of PairLen prices whose detection has just returned an
\* arbitrary pair of strictly ascending index sequences
FlatPrice(len) == [k \in 1..len |-> 1]

InitPairs ==
    /\ yf = <<Provided(FlatPrice(PairLen), <<>>, <<>>)>>
    /\ total_stocks = 1
    /\ pc = "guard"
    /\ i = 0
    /\ j = 0
    /\ tickers = <<0>>
    /\ prices = <<FlatPrice(PairLen)>>
    /\ pairs = <<(<<>>)>>
    /\ p \in AscendingSeqs(0..(PairLen - 1), PairMax)
    /\ v \in AscendingSeqs(0..(PairLen - 1), PairMax)
    /\ n = 0
    /\ m = 0
    /\ metric_dict = <<(<<>>)>>
    /\ interpolates = <<(<<>>)>>
    /\ correlated_metrics = <<(<<>>)>>
    /\ x = <<>>
    /\ y = <<>>

SpecPairs == InitPairs /\ [][PairingLoop]_vars

\* ------------------------------------ detection and pairing of one series
ScenarioA == <<1, 2, 3, 2, 1, 2, 3, 4, 3, 2>>

\* two valleys tied at 2 around a bump too small to be a peak
TiedValleys == <<1, 11, 2, 3, 2, 11, 6, 11, 1>>

DetectInputs ==
    SeqsUpTo(1..DetMaxPrice, DetLen) \cup {ScenarioA, TiedValleys}

InitDetect ==
    /\ \E hist \in DetectInputs : yf = <<Provided(hist, <<>>, <<>>)>>
    /\ total_stocks = 1
    /\ pc = "find_pairs"
    /\ i = 0
    /\ j = 0
    /\ tickers = <<>>
    /\ prices = <<>>
    /\ pairs = <<(<<>>)>>
    /\ p = <<>>
    /\ v = <<>>
    /\ n = 0
    /\ m = 0
    /\ metric_dict = <<(<<>>)>>
    /\ interpolates = <<(<<>>)>>
    /\ correlated_metrics = <<(<<>>)>>
    /\ x = <<>>
    /\ y = <<>>

SpecDetect == InitDetect /\ [][Detect \/ PairingLoop]_vars

\* ------------------------------------------------------------- numbers
\* A metric sample is a number or NaN.
NaN == [nan |-> TRUE, val |-> 0]

Num(k) == [nan |-> FALSE, val |-> k]

\* A dense value is the rational W / SplineDen; W does not fit TLC's
\* integers, so it is kept as <<hi, lo>> = hi * WideBase + lo with
\* 0 <= lo < WideBase.
WideBase == 100 * 100

Wide(hi, lo) == <<hi + (lo \div WideBase), lo % WideBase>>

\* a * b + c for |a| < 2^31 / WideBase
WideMulAdd(a, b, c) ==
    Wide((a \div WideBase) * b, (a % WideBase) * b + c)

WideLess(a, b) == a[1] < b[1] \/ (a[1] = b[1] /\ a[2] < b[2])

WideOf(k) == Wide(0, k)

\* ------------------------------------------------------ make_metric_dict
\* metric_dict[i] = the merged statements of instrument i, sorted by key
MakeMetricDict ==
    /\ pc = "make_metric_dict"
    /\ i < total_stocks
    /\ metric_dict' = [metric_dict EXCEPT ![i + 1] = At(yf, At(tickers, i)).statements]
    /\ i' = i + 1
    /\ UNCHANGED <<yf, total_stocks, pc, j, tickers, prices, pairs, p, v, n, m,
                   interpolates, correlated_metrics, x, y>>

\* ----------------------------------------------------- cubic_interpolate
\* int(datetime.now().year)
current_year == 2026

\* x = [current_year-4, ..., current_year]
Years == [k \in 1..5 |-> current_year - 5 + k]

\* y = [0 if math.isnan(z) else z for z in values][::-1]
SamplesOf(values) ==
    [k \in 1..Len(values) |->
        LET z == values[Len(values) + 1 - k]
        IN  IF z.nan THEN 0 ELSE z.val]

\* if len(x) != len(y): x = x[:len(y)]
KnotsFor(ys) ==
    IF Len(Years) # Len(ys) THEN Slice(Years, 0, Len(ys)) ELSE Years

\* CubicSpline(x, y) raises ValueError unless x and y have the same length
\* and there are at least 2 points
SplineFits(xs, ys) == Len(xs) = Len(ys) /\ Len(xs) >= 2

\* second difference of the samples around the (1-based) interior knot k
SecondDiff(ys, k) == ys[k - 1] - 2 * ys[k] + ys[k + 1]

\* Natural cubic spline on knots one year apart.  With M the second
\* derivatives at the knots (M = 0 at both ends) the first polynomial piece
\* is  y[0] + (y[1] - y[0] - M1/6) * u + (M1/6) * u^3,  u = t - x[0], and
\* M1/6 = SplineNum / SplineDen.
SplineDen(cnt) ==
    CASE cnt = 2 -> 1
      [] cnt = 3 -> 4
      [] cnt = 4 -> 15
      [] cnt = 5 -> 56

SplineNum(ys) ==
    CASE Len(ys) = 2 -> 0
      [] Len(ys) = 3 -> SecondDiff(ys, 2)
      [] Len(ys) = 4 -> 4 * SecondDiff(ys, 2) - SecondDiff(ys, 3)
      [] Len(ys) = 5 -> 15 * SecondDiff(ys, 2) - 4 * SecondDiff(ys, 3)
                            + SecondDiff(ys, 4)

\* cs(t) * SplineDen for a point t below the second knot; points below the
\* first knot are extrapolated with the first piece
SplineAt(xs, ys, t) ==
    LET u  == t - xs[1]
        k  == SplineDen(Len(ys))
        c3 == SplineNum(ys)
    IN  WideMulAdd(k * (ys[2] - ys[1]) - c3 + c3 * u * u, u, k * ys[1])

\* np.linspace(0, 1257, 1258)
LinspaceStart == 0
LinspaceStop == 1257
LinspaceNum == 1258

XNew(k) == LinspaceStart + (k * (LinspaceStop - LinspaceStart)) \div (LinspaceNum - 1)

\* y_new = cs(x_new)
DenseOf(xs, ys) == [k \in 1..LinspaceNum |-> SplineAt(xs, ys, XNew(k - 1))]

CurValues == At(At(metric_dict, i), j)

\* one metric of one instrument is fitted and evaluated
CubicMetric ==
    /\ pc = "cubic_interpolate"
    /\ i < total_stocks
    /\ j < Len(At(metric_dict, i))
    /\ LET ys == SamplesOf(CurValues)
           xs == KnotsFor(ys)
       IN  /\ SplineFits(xs, ys)
           /\ interpolates' =
                 [interpolates EXCEPT ![i + 1] = Append(@, DenseOf(xs, ys))]
    /\ j' = j + 1
    /\ UNCHANGED <<yf, total_stocks, pc, i, tickers, prices, pairs, p, v, n, m,
                   metric_dict, correlated_metrics, x, y>>

\* CubicSpline raises; nothing catches it and the script ends
CubicRaise ==
    /\ pc = "cubic_interpolate"
    /\ i < total_stocks
    /\ j < Len(At(metric_dict, i))
    /\ ~SplineFits(KnotsFor(SamplesOf(CurValues)), SamplesOf(CurValues))
    /\ pc' = "raised in cubic_interpolate"
    /\ UNCHANGED <<yf, total_stocks, i, j, tickers, prices, pairs, p, v, n, m,
                   metric_dict, interpolates, correlated_metrics, x, y>>

\* the keys of instrument i are exhausted
CubicNext ==
    /\ pc = "cubic_interpolate"
    /\ i < total_stocks
    /\ j = Len(At(metric_dict, i))
    /\ i' = i + 1
    /\ j' = 0
    /\ UNCHANGED <<yf, total_stocks, pc, tickers, prices, pairs, p, v, n, m,
                   metric_dict, interpolates, correlated_metrics, x, y>>

\* ------------------------------------------------------ find_kendall_tau
\* Scores are exact: a finite sum of (a / b) * sqrt(f), kept as the set of
\* its terms <<f, a, b>> with f square-free, a # 0, b > 0 and a / b reduced;
\* the empty set is 0.  NotANumber is the float nan.
NotANumber == {<<0, 0, 0>>}

Zero == {}

IsNaN(s) == s = NotANumber

Abs(a) == IF a < 0 THEN 0 - a ELSE a

RECURSIVE Gcd(_, _)
Gcd(a, b) == IF b = 0 THEN a ELSE Gcd(b, a % b)

\* the fraction a / b, b # 0, reduced and with a positive denominator
Frac(a, b) ==
    LET g == Gcd(Abs(a), Abs(b))
        s == IF b < 0 THEN 0 - 1 ELSE 1
    IN  <<(s * a) \div g, (s * b) \div g>>

FracAdd(q, r) == Frac(q[1] * r[2] + r[1] * q[2], q[2] * r[2])

Coef(s, f) ==
    IF \E t \in s : t[1] = f
    THEN LET t == CHOOSE t \in s : t[1] = f IN <<t[2], t[3]>>
    ELSE <<0, 1>>

\* float addition: nan absorbs
Plus(s, r) ==
    IF IsNaN(s) \/ IsNaN(r)
    THEN NotANumber
    ELSE LET sum(f) == FracAdd(Coef(s, f), Coef(r, f))
         IN  {<<f, sum(f)[1], sum(f)[2]>> :
                 f \in {g \in {t[1] : t \in s \cup r} : sum(g)[1] # 0}}

\* float division by a positive integer
DividedBy(s, k) ==
    IF IsNaN(s)
    THEN NotANumber
    ELSE {<<t[1], Frac(t[2], t[3] * k)[1], Frac(t[2], t[3] * k)[2]>> : t \in s}

\* the largest c with c * c dividing d
SquarePart(d) == Max({c \in 1..d : d % (c * c) = 0})

\* num / sqrt(den2) = (num / (c * f)) * sqrt(f), den2 = c * c * f
Surd(num, den2) ==
    LET c == SquarePart(den2)
        f == den2 \div (c * c)
    IN  IF num = 0 THEN Zero
        ELSE {<<f, Frac(num, c * f)[1], Frac(num, c * f)[2]>>}

\* sign of a - b for prices, and for dense values
Sign(a, b) == IF a < b THEN 0 - 1 ELSE IF b < a THEN 1 ELSE 0

WideSign(a, b) ==
    IF WideLess(a, b) THEN 0 - 1 ELSE IF WideLess(b, a) THEN 1 ELSE 0

\* scipy.stats.kendalltau(xs, ys).statistic, tau-b, for samples of equal
\* size: (concordant - discordant) / sqrt((tot - xtie) * (tot - ytie)), nan
\* when either sample is empty or constant
KendallTau(xs, ys) ==
    LET ab   == {q \in (DOMAIN xs) \X (DOMAIN xs) : q[1] < q[2]}
        sx(q) == Sign(xs[q[1]], xs[q[2]])
        sy(q) == WideSign(ys[q[1]], ys[q[2]])
        tot  == Cardinality(ab)
        xtie == Cardinality({q \in ab : sx(q) = 0})
        ytie == Cardinality({q \in ab : sy(q) = 0})
        con  == Cardinality({q \in ab : sx(q) * sy(q) > 0})
        dis  == Cardinality({q \in ab : sx(q) * sy(q) < 0})
    IN  IF Len(xs) = 0 \/ xtie = tot \/ ytie = tot
        THEN NotANumber
        ELSE Surd(con - dis, (tot - xtie) * (tot - ytie))

\* kendalltau raises ValueError when the samples differ in size
TauRaises(xs, ys) == \E k \in DOMAIN xs : Len(xs[k]) # Len(ys[k])

\* tau = 0; for k in range(len(x)): tau += kendalltau(x[k], y[k]).statistic
RECURSIVE TauSum(_, _, _)
TauSum(xs, ys, k) ==
    IF k = 0 THEN Zero
    ELSE Plus(TauSum(xs, ys, k - 1), KendallTau(xs[k], ys[k]))

\* the slices [pair[0]:pair[1]] of a series over a list of windows
Slices(series, wins) ==
    [k \in DOMAIN wins |-> Slice(series, wins[k][1], wins[k][2])]

\* float('nan'), the value every key starts with
InitialScore == NotANumber

\* the slices appended to an accumulator for one metric
Appended(acc, series, wins) == acc \o Slices(series, wins)

\* correlated_metrics[i] = dict.fromkeys(metric_name, nan); x = []; y = []
KendallBegin ==
    /\ pc = "find_kendall_tau"
    /\ i < total_stocks
    /\ correlated_metrics' =
          [correlated_metrics EXCEPT
              ![i + 1] = [k \in DOMAIN At(metric_dict, i) |-> InitialScore]]
    /\ x' = <<>>
    /\ y' = <<>>
    /\ j' = 0
    /\ pc' = "kendall_metric"
    /\ UNCHANGED <<yf, total_stocks, i, tickers, prices, pairs, p, v, n, m,
                   metric_dict, interpolates>>

\* one pass of the loop over the dense series of instrument i
KendallMetric ==
    /\ pc = "kendall_metric"
    /\ j < Len(At(interpolates, i))
    /\ LET xs == Appended(x, At(prices, i), At(pairs, i))
           ys == Appended(y, At(At(interpolates, i), j), At(pairs, i))
       IN  /\ x' = xs
           /\ y' = ys
           /\ IF Len(xs) # 0 /\ TauRaises(xs, ys)
              THEN /\ pc' = "raised in find_kendall_tau"
                   /\ UNCHANGED <<j, correlated_metrics>>
              ELSE /\ pc' = pc
                   /\ j' = j + 1
                   /\ correlated_metrics' =
                         IF Len(xs) # 0
                         THEN [correlated_metrics EXCEPT
                                  ![i + 1][j + 1] =
                                      DividedBy(TauSum(xs, ys, Len(xs)), Len(xs))]
                         ELSE correlated_metrics
    /\ UNCHANGED <<yf, total_stocks, i, tickers, prices, pairs, p, v, n, m,
                   metric_dict, interpolates>>

\* the dense series of instrument i are exhausted
KendallNext ==
    /\ pc = "kendall_metric"
    /\ j = Len(At(interpolates, i))
    /\ i' = i + 1
    /\ pc' = "find_kendall_tau"
    /\ UNCHANGED <<yf, total_stocks, j, tickers, prices, pairs, p, v, n, m,
                   metric_dict, interpolates, correlated_metrics, x, y>>

\* ------------------------------------------------- the script, top to bottom
\* a for loop over the instruments ends and the next function is called
NextFunction(here, there) ==
    /\ pc = here
    /\ i = total_stocks
    /\ pc' = there
    /\ i' = 0
    /\ UNCHANGED <<yf, total_stocks, j, tickers, prices, pairs, p, v, n, m,
                   metric_dict, interpolates, correlated_metrics, x, y>>

FindPairsReturn == NextFunction("find_pairs", "make_metric_dict")

MakeMetricDictReturn == NextFunction("make_metric_dict", "cubic_interpolate")

CubicReturn == NextFunction("cubic_interpolate", "find_kendall_tau")

KendallReturn == NextFunction("find_kendall_tau", "done")

Next ==
    \/ Detect
    \/ PairingLoop
    \/ FindPairsReturn
    \/ MakeMetricDict
    \/ MakeMetricDictReturn
    \/ CubicMetric
    \/ CubicRaise
    \/ CubicNext
    \/ CubicReturn
    \/ KendallBegin
    \/ KendallMetric
    \/ KendallNext
    \/ KendallReturn

\* ------------------------------------------------------------- the inputs
\* most instruments of one run
MaxStocks == 2

\* price histories: none; one valley only; windows of one day; a leading
\* peak and windows of two days; one window of each; a window with a
\* repeated price
NoHistory == <<>>

OneDayWindows == <<2, 1, 2, 1, 2, 1>>

TwoDayWindows == <<1, 2, 1, 2, 3, 1, 2, 3, 2>>

MixedWindows == <<2, 1, 3, 1, 2, 3, 2>>

TiedWindow == <<3, 1, 2, 2, 3, 1, 2, 3, 1>>

YoungHistories ==
    {NoHistory, ScenarioA, OneDayWindows, TwoDayWindows, MixedWindows, TiedWindow}

\* an instrument listed for more than 5 years whose price only rose
Ramp(first, len) == [k \in 1..len |-> first + k - 1]

\* annual samples of a metric, most recent first
OneSample == <<Num(1)>>

Rising2 == <<Num(2), Num(1)>>

Falling2 == <<Num(1), Num(2)>>

Flat3 == <<Num(1), Num(1), Num(1)>>

Gap4 == <<Num(3), NaN, Num(2), Num(1)>>

\* Scenario B of the specification in units of 10: 2020: 1, 2021: nan,
\* 2022: 3, 2023: 4, 2024: 5
ScenarioB == <<Num(5), Num(4), Num(3), NaN, Num(1)>>

\* the merged statements of an instrument, in key order
StatementInputs ==
    { <<>>,
      <<Rising2>>,
      <<Rising2, Falling2>>,
      <<Falling2, Flat3, Gap4>>,
      <<ScenarioB, OneSample>> }

InstrumentInputs ==
    {Provided(h, <<>>, st) : h \in YoungHistories, st \in StatementInputs}
        \cup {Provided(Ramp(1, HistoryRows + 2), Ramp(3, HistoryRows), <<Rising2>>)}

EmptyLists == [k \in 1..total_stocks |-> <<>>]

\* the state when find_pairs is called, the instruments drawn from inputs
InitWith(inputs) ==
    /\ total_stocks \in 1..MaxStocks
    /\ yf \in [1..total_stocks -> inputs]
    /\ pc = "find_pairs"
    /\ i = 0
    /\ j = 0
    /\ tickers = <<>>
    /\ prices = <<>>
    /\ pairs = EmptyLists
    /\ p = <<>>
    /\ v = <<>>
    /\ n = 0
    /\ m = 0
    /\ metric_dict = EmptyLists
    /\ interpolates = EmptyLists
    /\ correlated_metrics = EmptyLists
    /\ x = <<>>
    /\ y = <<>>

Init == InitWith(InstrumentInputs)

Spec == Init /\ [][Next]_vars

\* instruments with too few extrema beside instruments with windows
OnePeak == <<1, 2, 1>>

OnePeakTwoValleys == <<2, 1, 2, 1, 2>>

ExtremaInputs ==
    {Provided(h, <<>>, st) :
        h \in {NoHistory, OnePeak, ScenarioA, OnePeakTwoValleys, TwoDayWindows},
        st \in {<<Rising2, Falling2>>, <<ScenarioB, OneSample>>}}

InitExtrema == InitWith(ExtremaInputs)

SpecExtrema == InitExtrema /\ [][Next]_vars

\* ------------------------------------------------- properties: the pairing
\* the windows of the instrument whose peak and valley are in p and v
CurWin == IF Len(prices) = 0 THEN <<>> ELSE pairs[Len(prices)]

Increasing(W, c) == \A a \in 1..(Len(W) - 1) : W[a][c] < W[a + 1][c]

\* C1: every window [v, p] of every instrument satisfies 0 <= v < p < n, n
\* the length of the instrument's price series, and along the window list
\* both the valley and the peak coordinates strictly increase.
C1_WindowsOrdered ==
    \A k \in 1..Len(prices) :
        /\ \A a \in DOMAIN pairs[k] :
              /\ 0 <= pairs[k][a][1]
              /\ pairs[k][a][1] < pairs[k][a][2]
              /\ pairs[k][a][2] < Len(prices[k])
        /\ Increasing(pairs[k], 1)
        /\ Increasing(pairs[k], 2)

C1_Witness == pc = "find_pairs" /\ Len(CurWin) >= 2

\* C9 as stated: consecutive windows never overlap, p_k <= v_k+1.
C9_NoOverlap ==
    \A a \in 1..(Len(CurWin) - 1) : CurWin[a][2] <= CurWin[a + 1][1]

\* a peak index lies strictly between every two consecutive valleys
PeakBetweenValleys ==
    \A a \in 1..(Len(v) - 1) :
        \E b \in DOMAIN p : v[a] < p[b] /\ p[b] < v[a + 1]

\* C9 amended: when a peak lies between every two consecutive valleys, the
\* windows of the pairing loop do not overlap.
C9_NoOverlapWhenAlternating == PeakBetweenValleys => C9_NoOverlap

C9_Witness ==
    /\ pc = "find_pairs"
    /\ PeakBetweenValleys
    /\ Len(CurWin) >= 2
    /\ Len(p) > Len(CurWin)

\* position (1-based) of the first peak after position from that exceeds val,
\* 0 when there is none
FirstPeakAfter(from, val) ==
    LET later == {b \in (from + 1)..Len(p) : p[b] > val}
    IN  IF later = {} THEN 0 ELSE Min(later)

\* position of the peak the k-th valley is to be paired with
RECURSIVE Chosen(_)
Chosen(k) == IF k = 0 THEN 0 ELSE FirstPeakAfter(Chosen(k - 1), v[k])

PairedPeaks == {CurWin[a][2] : a \in DOMAIN CurWin}

\* C10: the k-th window holds the k-th valley and the earliest peak, after
\* the peak of the previous window, that exceeds it; no valley and no peak
\* is in two windows; and a peak the loop has passed without pairing it is
\* not paired by any later step.
C10_State ==
    /\ \A a \in DOMAIN CurWin :
          /\ CurWin[a][1] = v[a]
          /\ Chosen(a) > 0
          /\ CurWin[a][2] = p[Chosen(a)]
    /\ \A a, b \in DOMAIN CurWin :
          a # b => CurWin[a][1] # CurWin[b][1] /\ CurWin[a][2] # CurWin[b][2]

C10_SkippedStay ==
    pc = "while" =>
        \A b \in 1..m : p[b] \notin PairedPeaks => p[b] \notin PairedPeaks'

C10_Pairing == [](C10_State) /\ [][C10_SkippedStay]_vars

C10_Witness ==
    /\ pc = "find_pairs"
    /\ Len(CurWin) >= 2
    /\ \E b \in 1..m : p[b] \notin PairedPeaks

\* ------------------------------------------------ properties: Scenario A
IsScenarioA == yf[1].max = ScenarioA

\* C3 as stated: the detector and the pairing step give exactly one window,
\* valley 4 with peak 7.
C3_ScenarioAOneWindow ==
    (IsScenarioA /\ pc = "find_pairs" /\ i = 1) => pairs[1] = <<(<<4, 7>>)>>

\* C3 amended: on Scenario A the detector returns the peaks 2 and 7 and the
\* single valley 4, and find_pairs, which pairs only with at least two
\* peaks and two valleys, leaves the window list empty.
C3_ScenarioANoWindow ==
    (IsScenarioA /\ Len(prices) = 1) =>
        /\ p = <<2, 7>>
        /\ v = <<4>>
        /\ pairs[1] = <<>>

C3_Witness == IsScenarioA /\ pc = "find_pairs" /\ i = 1

\* --------------------------------------------- properties: the pipeline
Instruments == 1..Len(prices)

\* find_kendall_tau has finished instrument k
KendallDone(k) ==
    \/ pc = "done"
    \/ pc \in {"find_kendall_tau", "kendall_metric"} /\ k <= i

\* find_kendall_tau has given instrument k its dictionary of scores
KendallBegun(k) == KendallDone(k) \/ (pc = "kendall_metric" /\ k = i + 1)

\* the loop of find_kendall_tau has passed metric c of instrument k
Scored(k, c) ==
    KendallDone(k) \/ (pc = "kendall_metric" /\ k = i + 1 /\ c <= j)

\* Kendall tau of metric c of instrument k over the window w
WindowTau(k, c, w) ==
    KendallTau(Slice(prices[k], w[1], w[2]),
               Slice(interpolates[k][c], w[1], w[2]))

\* the mean over the instrument's windows of the taus of the metric's own
\* slices
OwnScore(k, c) ==
    DividedBy(TauSum(Slices(prices[k], pairs[k]),
                     Slices(interpolates[k][c], pairs[k]),
                     Len(pairs[k])),
              Len(pairs[k]))

\* C2 as stated: the score of a metric is the sum of the taus of its own
\* slices over the instrument's windows divided by the number of windows.
C2_ScoreIsOwnMean ==
    \A k \in Instruments : \A c \in DOMAIN correlated_metrics[k] :
        (Scored(k, c) /\ Len(pairs[k]) > 0) =>
            correlated_metrics[k][c] = OwnScore(k, c)

\* C4 as stated: a dense series has as many elements as the instrument's
\* non-empty price series, so the two slices of a window are equally long.
C4_DenseLengthIsPriceLength ==
    \A k \in Instruments : \A c \in DOMAIN interpolates[k] :
        Len(prices[k]) > 0 =>
            /\ Len(interpolates[k][c]) = Len(prices[k])
            /\ \A a \in DOMAIN pairs[k] :
                  Len(Slice(prices[k], pairs[k][a][1], pairs[k][a][2]))
                      = Len(Slice(interpolates[k][c], pairs[k][a][1], pairs[k][a][2]))

\* C5 as stated: the evaluation points run from year_min to year_max in the
\* coordinates the spline was fitted in, so the dense series starts at the
\* oldest sample and ends at the most recent one.
C5_DenseSpansTheYears ==
    \A k \in Instruments : \A c \in DOMAIN interpolates[k] :
        LET ys == SamplesOf(metric_dict[k][c])
            xs == KnotsFor(ys)
            dense == interpolates[k][c]
        IN  /\ XNew(0) = xs[1]
            /\ XNew(LinspaceNum - 1) = xs[Len(xs)]
            /\ dense[1] = WideOf(SplineDen(Len(ys)) * ys[1])
            /\ dense[Len(dense)] = WideOf(SplineDen(Len(ys)) * ys[Len(ys)])

\* C6 as stated: a metric with fewer than 2 samples raises nothing, and its
\* score ends as nan.
C6_ShortMetricTolerated ==
    /\ ~(/\ pc = "raised in cubic_interpolate"
         /\ Len(CurValues) < 2)
    /\ \A k \in Instruments : \A c \in DOMAIN correlated_metrics[k] :
          (Scored(k, c) /\ Len(metric_dict[k][c]) < 2) =>
              IsNaN(correlated_metrics[k][c])

SqrtScale == 10 * 10

SqrtFloor(f) ==
    Max({r \in 0..(f * SqrtScale) : r * r <= f * SqrtScale * SqrtScale})

\* the score as a fraction, every square root replaced by a rational bound:
\* an upper bound of the score with up = 1, a lower bound with up = 0
RECURSIVE Bound(_, _)
Bound(s, up) ==
    IF s = {} THEN <<0, 1>>
    ELSE LET t  == CHOOSE t \in s : TRUE
             lo == SqrtFloor(t[1])
             r  == IF lo * lo = t[1] * SqrtScale * SqrtScale \/ (t[2] > 0) # (up = 1)
                   THEN lo ELSE lo + 1
         IN  FracAdd(Frac(t[2] * r, t[3] * SqrtScale), Bound(s \ {t}, up))

InRange(s) ==
    /\ Bound(s, 1)[1] <= Bound(s, 1)[2]
    /\ 0 - Bound(s, 0)[1] <= Bound(s, 0)[2]

\* C8 as stated: a score is nan exactly when no window of the instrument
\* yields a defined tau for the metric, and a defined score is in [-1, 1].
C8_NaNOnlyWithoutDefinedTau ==
    \A k \in Instruments : \A c \in DOMAIN correlated_metrics[k] :
        Scored(k, c) =>
            /\ IsNaN(correlated_metrics[k][c])
                  <=> \A a \in DOMAIN pairs[k] : IsNaN(WindowTau(k, c, pairs[k][a]))
            /\ ~IsNaN(correlated_metrics[k][c]) => InRange(correlated_metrics[k][c])

====
